---- MODULE Spec2Model ----
(***************************************************************************)
(* Error chains of github.com/mailgun/errors: the constructors that build  *)
(* annotated nodes around a cause, the chain traversals (Unwrap, As, Last) *)
(* and the flat projection (Fields, ToMap, ToLogrus).                      *)
(*                                                                         *)
(* An error value is the sequence of its nodes, head first, leaf last; the *)
(* nil error is the empty sequence.  A node of a chain is identified with  *)
(* the suffix of the chain that starts at it (a Go pointer to the node).   *)
(***************************************************************************)
EXTENDS Integers, Sequences, FiniteSets, TLC

VARIABLES err, built, maps, call, ret, slot, out

vars == <<err, built, maps, call, ret, slot, out>>

\* Largest number of wrapping nodes the caller stacks on one leaf.
MaxDepth == 3

\* const NoMsg = ""
NoMsg == ""

\* The nil error, and the zero value of every caller variable of error type.
Nil == <<>>

-----------------------------------------------------------------------------
(* Node kinds and the Go types behind them *)

WrapperKinds == {"wrappedError", "wrapError", "withStack", "withFields"}

LeafKinds == {"errorString", "ErrTest", "ErrHasFields", "asErr"}

\* Keys and values a caller puts into a WithFields mapping.
Keys == {"a", "b"}

\* The caller's field mappings (Go maps are references; a node holds the id).
MapIds == {1, 2, 3}

\* fmt.Sprintf("%T", v)
TypeName(e) ==
    IF e = Nil THEN "<nil>"
    ELSE CASE e[1].kind = "wrappedError" -> "*errors.wrappedError"
           [] e[1].kind = "wrapError"    -> "*fmt.wrapError"
           [] e[1].kind = "withStack"    -> "*errors.withStack"
           [] e[1].kind = "withFields"   -> "*errors.withFields"
           [] e[1].kind = "errorString"  -> "*errors.errorString"
           [] e[1].kind = "ErrTest"      -> "*errors_test.ErrTest"
           [] e[1].kind = "ErrHasFields" -> "*errors_test.ErrHasFields"
           [] e[1].kind = "asErr"        -> "*errors_test.asErr"

\* The interface types a target may point to, and the method sets of the kinds.
InterfaceTypes == {"callstack.HasStackTrace", "errors.HasFields", "error"}

HasStackTraceKinds == {"wrappedError", "withStack", "withFields"}

HasFieldsKinds == {"withFields", "withStack", "ErrHasFields"}

\* Pointer types that implement error.
ErrorTypes ==
    {"*errors.wrappedError", "*fmt.wrapError", "*errors.withStack", "*errors.withFields",
     "*errors.errorString", "*errors_test.ErrTest", "*errors_test.ErrHasFields",
     "*errors_test.asErr"}

\* reflect.TypeOf(err).AssignableTo(targetType)
AssignableTo(e, targetType) ==
    CASE targetType = "callstack.HasStackTrace" -> e[1].kind \in HasStackTraceKinds
      [] targetType = "errors.HasFields"        -> e[1].kind \in HasFieldsKinds
      [] targetType = "error"                   -> TRUE
      [] OTHER                                  -> TypeName(e) = targetType

-----------------------------------------------------------------------------
(* Values *)

Node(kind, msg, stack, fields) ==
    [kind |-> kind, msg |-> msg, stack |-> stack, fields |-> fields]

\* A node without a stack snapshot / without a field mapping.
NoStack == <<>>

NoFields == 0

\* A Go map value is the function from its keys; the nil map has no key.
NilMap == <<>>

\* callstack.New(1): the snapshot taken at the caller's line, call site first.
CallstackNew(line) ==
    << [Func |-> "main.caller", File |-> "caller.go", LineNo |-> line],
       [Func |-> "runtime.main", File |-> "proc.go", LineNo |-> 0] >>

\* callstack.GetLastFrame: the origin of the error is the first captured frame.
GetLastFrame(trace) ==
    IF trace = <<>> THEN [Func |-> "", File |-> "", LineNo |-> 0] ELSE trace[1]

\* The line of the caller's next annotation call.
CallSite == built + 1

\* fmt.Sprintf for the verb-free format and for "%s" with one string operand.
Sprintf(format, a) ==
    CASE a = <<>>      -> format
      [] format = "%s" -> a[1]
      [] OTHER         -> format \o "%!(EXTRA string=" \o a[1] \o ")"

\* result[key] = value for every key of the second map.
MergeOver(result, child) ==
    [k \in (DOMAIN result) \cup (DOMAIN child) |->
        IF k \in DOMAIN child THEN child[k] ELSE result[k]]

-----------------------------------------------------------------------------
(* Single-step unwrap and short rendering *)

\* Unwrap that knows only the nodes with a named cause (wrapped), not the
\* embedded error of withStack.
Unwrap_NamedCauseOnly(e) ==
    IF e = Nil THEN Nil
    ELSE IF e[1].kind \in WrapperKinds \ {"withStack"} THEN Tail(e)
    ELSE Nil

\* errors.Unwrap: the Unwrap method's result, nil for a type without one.
Unwrap(e) ==
    IF e = Nil THEN Nil
    ELSE IF e[1].kind \in WrapperKinds THEN Tail(e)
    ELSE Nil

RECURSIVE Error(_)
\* The Error method of each node type.
Error(e) ==
    CASE e[1].kind \in {"wrappedError", "withFields"} ->
            IF e[1].msg = NoMsg THEN Error(Tail(e))
            ELSE e[1].msg \o ": " \o Error(Tail(e))
      [] e[1].kind = "withStack" -> Error(Tail(e))
      [] OTHER -> e[1].msg

-----------------------------------------------------------------------------
(* Constructors *)

\* errors.New
New(text) == << Node("errorString", text, NoStack, NoFields) >>

\* fmt.Errorf("%s: %w", msg, err): the text is formatted when the node is built.
FmtErrorf(msg, e) ==
    << Node("wrapError", msg \o ": " \o Error(e), NoStack, NoFields) >> \o e

\* Wrap without its nil check.
Wrap_NoNilCheck(e, msg) ==
    << Node("wrappedError", msg, CallstackNew(CallSite), NoFields) >> \o e

\* Wrap of unnamed/part_001 (wrappedError)
Wrap(e, msg) ==
    IF e = Nil THEN Nil
    ELSE << Node("wrappedError", msg, CallstackNew(CallSite), NoFields) >> \o e

\* Wrapf of unnamed/part_001
Wrapf(e, format, a) ==
    IF e = Nil THEN Nil
    ELSE << Node("wrappedError", Sprintf(format, a), CallstackNew(CallSite), NoFields) >> \o e

\* Wrap of wrap.go ("Wrap is deprecated use fmt.Errorf() instead")
DeprecatedWrap(e, msg) ==
    IF e = Nil THEN Nil ELSE FmtErrorf(msg, e)

\* Wrapf of wrap.go
DeprecatedWrapf(e, msg, a) ==
    IF e = Nil THEN Nil ELSE FmtErrorf(Sprintf(msg, a), e)

\* WithStack of stack.go
WithStack(e) ==
    IF e = Nil THEN Nil
    ELSE << Node("withStack", NoMsg, CallstackNew(CallSite), NoFields) >> \o e

\* WithFields.Wrapf: the node keeps the receiver map itself (fields: f).
WithFields_Wrapf(f, e, format, a) ==
    IF e = Nil THEN Nil
    ELSE << Node("withFields", Sprintf(format, a), CallstackNew(CallSite), f) >> \o e

\* WithFields.Wrap
WithFields_Wrap(f, e, msg) ==
    IF e = Nil THEN Nil
    ELSE << Node("withFields", msg, CallstackNew(CallSite), f) >> \o e

\* WithFields.WithStack
WithFields_WithStack(f, e) ==
    IF e = Nil THEN Nil
    ELSE << Node("withFields", NoMsg, CallstackNew(CallSite), f) >> \o e

\* WithFields.Error that also puts the text on the node (msg: msg).
WithFields_Error_MsgOnNode(f, msg) ==
    << Node("withFields", msg, CallstackNew(CallSite), f) >> \o New(msg)

\* WithFields.Error
WithFields_Error(f, msg) ==
    << Node("withFields", "", CallstackNew(CallSite), f) >> \o New(msg)

\* WithFields.Errorf
WithFields_Errorf(f, format, a) ==
    << Node("withFields", "", CallstackNew(CallSite), f) >> \o New(Sprintf(format, a))

-----------------------------------------------------------------------------
(* Targets of As and Last *)

\* What the caller passes as target: the untyped nil, a value that is no
\* pointer, a nil pointer, or a pointer to a variable of type elem.
TargetForms == {"nil", "nonptr", "nilptr", "ptr"}

Target(form, elem) == [form |-> form, elem |-> elem]

\* The checks without the one on the pointed-to type.
TargetCheck_NoElemCheck(target) ==
    IF target.form = "nil" THEN "panic: errors: target cannot be nil"
    ELSE IF target.form # "ptr" THEN "panic: errors: target must be a non-nil pointer"
    ELSE "ok"

\* The checks Last makes before it walks the chain: the panic they raise, or "ok".
TargetCheck(target) ==
    IF target.form = "nil" THEN "panic: errors: target cannot be nil"
    ELSE IF target.form # "ptr" THEN "panic: errors: target must be a non-nil pointer"
    ELSE IF target.elem \notin InterfaceTypes /\ target.elem \notin ErrorTypes
         THEN "panic: errors: *target must be interface or implement error"
    ELSE "ok"

\* reflect.Value.Set panics for a value that is not assignable to the variable.
SetPanic == "panic: reflect.Set: value is not assignable"

Panics ==
    {"panic: errors: target cannot be nil",
     "panic: errors: target must be a non-nil pointer",
     "panic: errors: *target must be interface or implement error",
     SetPanic,
     "panic: nil pointer dereference"}

Result(r, s) == [ret |-> r, slot |-> s]

\* The As(any) bool method of a caller's error type (asErr): it presents itself
\* as an *ErrTest, storing the converted value through the target.
AsMethod(e, target, s) ==
    IF target.elem = "*errors_test.ErrTest"
    THEN [ok |-> TRUE, slot |-> << Node("ErrTest", e[1].msg, NoStack, NoFields) >>]
    ELSE [ok |-> FALSE, slot |-> s]

HasAsMethod(e) == e[1].kind = "asErr"

RECURSIVE AsLoop(_, _, _)
\* The loop of the standard errors.As
AsLoop(e, target, s) ==
    IF e = Nil THEN Result("false", s)
    ELSE IF AssignableTo(e, target.elem) THEN Result("true", e)
    ELSE IF HasAsMethod(e) /\ AsMethod(e, target, s).ok
         THEN Result("true", AsMethod(e, target, s).slot)
    ELSE AsLoop(Unwrap(e), target, s)

\* As(err, target), the standard errors.As; s is the value the target's
\* variable holds before the call.
As(e, target, s) ==
    IF e = Nil THEN Result("false", s)
    ELSE IF TargetCheck(target) # "ok" THEN Result(TargetCheck(target), s)
    ELSE AsLoop(e, target, s)

RECURSIVE LastLoop(_, _, _, _)
\* for err != nil { ... err = Unwrap(err) }: <<found, the variable's value>>
LastLoop(e, target, found, s) ==
    IF e = Nil THEN <<found, s>>
    ELSE LET f1 == IF AssignableTo(e, target.elem) THEN e ELSE found
             viaAs == HasAsMethod(e) /\ AsMethod(e, target, s).ok
             f2 == IF viaAs THEN e ELSE f1
             s2 == IF HasAsMethod(e) THEN AsMethod(e, target, s).slot ELSE s
         IN  LastLoop(Unwrap(e), target, f2, s2)

\* Last that clears the variable when nothing matches.
Last_ClearsSlot(e, target, s) ==
    IF TargetCheck(target) # "ok" THEN Result(TargetCheck(target), s)
    ELSE LET r == LastLoop(e, target, Nil, s)
         IN  IF r[1] # Nil THEN Result("true", r[1]) ELSE Result("false", Nil)

\* Last that stops at the first match, as errors.As does.
Last_FirstMatch(e, target, s) ==
    IF TargetCheck(target) # "ok" THEN Result(TargetCheck(target), s)
    ELSE AsLoop(e, target, s)

\* Last(err, target)
Last(e, target, s) ==
    IF TargetCheck(target) # "ok" THEN Result(TargetCheck(target), s)
    ELSE LET r == LastLoop(e, target, Nil, s)
             found == r[1]
         IN  IF found # Nil
             THEN IF AssignableTo(found, target.elem) THEN Result("true", found)
                  ELSE Result(SetPanic, r[2])
             ELSE Result("false", r[2])

-----------------------------------------------------------------------------
(* Stack and field aggregation *)

RECURSIVE StackTrace(_)
\* The StackTrace method of wrappedError, withFields and withStack.
StackTrace(e) ==
    IF e[1].kind \in {"wrappedError", "withFields"}
       /\ Tail(e)[1].kind \in HasStackTraceKinds
    THEN StackTrace(Tail(e))
    ELSE e[1].stack

HasFieldsTarget == Target("ptr", "errors.HasFields")

HasStackTraceTarget == Target("ptr", "callstack.HasStackTrace")

RECURSIVE Fields(_)
\* The Fields method of withFields, withStack and ErrHasFields.
Fields(e) ==
    CASE e[1].kind = "withFields" ->
            LET result == maps[e[1].fields]
                f == As(Tail(e), HasFieldsTarget, Nil)
            IN  IF f.ret = "true"
                THEN LET child == Fields(f.slot)
                     IN  IF child = NilMap THEN result ELSE MergeOver(result, child)
                ELSE result
      [] e[1].kind = "withStack" ->
            IF Tail(e)[1].kind \in HasFieldsKinds THEN Fields(Tail(e)) ELSE NilMap
      [] e[1].kind = "ErrHasFields" ->
            IF e[1].fields = NoFields THEN NilMap ELSE maps[e[1].fields]

RECURSIVE Innermost(_)
\* Single-step unwrap repeated until it yields nil.
Innermost(e) == IF Unwrap(e) = Nil THEN e ELSE Innermost(Unwrap(e))

StackKeys == {"excFuncName", "excLineNum", "excFileName"}

\* ToMap that reports the type of the innermost error.
ToMap_LeafType(e) ==
    MergeOver(
        [k \in {"excValue", "excType"} |->
            IF k = "excValue" THEN Error(e) ELSE TypeName(Innermost(e))],
        LET f == As(e, HasFieldsTarget, Nil)
        IN  IF f.ret = "true" THEN Fields(f.slot) ELSE NilMap)

\* ToMap that adds the frame keys whether or not a stack was found.
ToMap_AlwaysFrame(e) ==
    LET stack == Last(e, HasStackTraceTarget, Nil)
        caller == GetLastFrame(IF stack.ret = "true" THEN StackTrace(stack.slot) ELSE <<>>)
    IN  [k \in {"excValue", "excType"} \cup StackKeys |->
            CASE k = "excValue"    -> Error(e)
              [] k = "excType"     -> TypeName(Unwrap(e))
              [] k = "excFuncName" -> caller.Func
              [] k = "excLineNum"  -> caller.LineNo
              [] k = "excFileName" -> caller.File]

\* ToMap(err) for a non-nil err
ToMap(e) ==
    LET result == [k \in {"excValue", "excType"} |->
                      IF k = "excValue" THEN Error(e) ELSE TypeName(Unwrap(e))]
        stack == Last(e, HasStackTraceTarget, Nil)
        caller == GetLastFrame(StackTrace(stack.slot))
        traced == IF stack.ret = "true"
                  THEN MergeOver(result,
                         [k \in {"excFuncName", "excLineNum", "excFileName"} |->
                            CASE k = "excFuncName" -> caller.Func
                              [] k = "excLineNum"  -> caller.LineNo
                              [] k = "excFileName" -> caller.File])
                  ELSE result
        f == As(e, HasFieldsTarget, Nil)
    IN  IF f.ret = "true" THEN MergeOver(traced, Fields(f.slot)) ELSE traced

\* ToLogrus that inspects only the head of the chain (type assertions on err
\* itself in place of Last and errors.As).
ToLogrus_HeadOnly(e) ==
    LET result == [k \in {"excValue", "excType"} |->
                      IF k = "excValue" THEN Error(e) ELSE TypeName(Unwrap(e))]
        caller == GetLastFrame(StackTrace(e))
        traced == IF e[1].kind \in HasStackTraceKinds
                  THEN MergeOver(result,
                         [k \in {"excFuncName", "excLineNum", "excFileName"} |->
                            CASE k = "excFuncName" -> caller.Func
                              [] k = "excLineNum"  -> caller.LineNo
                              [] k = "excFileName" -> caller.File])
                  ELSE result
    IN  IF e[1].kind \in HasFieldsKinds THEN MergeOver(traced, Fields(e)) ELSE traced

\* ToLogrus(err) for a non-nil err
ToLogrus(e) ==
    LET result == [k \in {"excValue", "excType"} |->
                      IF k = "excValue" THEN Error(e) ELSE TypeName(Unwrap(e))]
        stack == Last(e, HasStackTraceTarget, Nil)
        caller == GetLastFrame(StackTrace(stack.slot))
        traced == IF stack.ret = "true"
                  THEN MergeOver(result,
                         [k \in {"excFuncName", "excLineNum", "excFileName"} |->
                            CASE k = "excFuncName" -> caller.Func
                              [] k = "excLineNum"  -> caller.LineNo
                              [] k = "excFileName" -> caller.File])
                  ELSE result
        f == As(e, HasFieldsTarget, Nil)
    IN  IF f.ret = "true" THEN MergeOver(traced, Fields(f.slot)) ELSE traced

-----------------------------------------------------------------------------
(* The caller's program: it builds one chain and inspects it *)

\* Messages, formats with their operands, and leaf texts the caller uses.
Msgs == {NoMsg, "m"}

Formats == { <<"", <<>> >>, <<"%s", <<"m">> >> }

Texts == {"e"}

\* The maps the caller uses as WithFields receivers, and the map of its own
\* ErrHasFields error.
ReceiverIds == {1, 2}

LeafMapIds == {3}

InitMaps ==
    << [k \in {"a"} |-> "v1"],
       [k \in {"a", "b"} |-> "v2"],
       [k \in {"a"} |-> "v3"] >>

NoTarget == Target("none", "none")

Call(op, msg, f, target, prior) ==
    [op |-> op, msg |-> msg, f |-> f, target |-> target, prior |-> prior]

\* The targets the caller passes to As and Last.
Targets ==
    { Target("nil", "nil"), Target("nonptr", "int"),
      Target("nilptr", "*errors_test.ErrTest") }
    \cup { Target("ptr", t) :
             t \in {"callstack.HasStackTrace", "errors.HasFields",
                    "*errors_test.ErrTest", "int"} }

\* A value the target's variable may hold from an earlier call.
Earlier(elem) ==
    CASE elem = "callstack.HasStackTrace" ->
            << Node("wrappedError", "last", CallstackNew(0), NoFields) >> \o New("bottom")
      [] elem = "errors.HasFields" ->
            << Node("ErrHasFields", "old", NoStack, 3) >>
      [] elem = "*errors_test.ErrTest" ->
            << Node("ErrTest", "old", NoStack, NoFields) >>
      [] OTHER -> Nil

Priors(target) ==
    IF target.form = "ptr" THEN {Nil, Earlier(target.elem)} ELSE {Nil}

Init ==
    /\ err = Nil
    /\ built = 0
    /\ maps = InitMaps
    /\ call = Call("init", NoMsg, NoFields, NoTarget, Nil)
    /\ ret = "none"
    /\ slot = Nil
    /\ out = NilMap

Inspections ==
    {"Last", "As", "ToMap", "ToLogrus", "Unwrap", "Is", "Fields", "StackTrace",
     "m[k] = v", "delete(m, k)", "fields[k] = v", "Error", "Format",
     "Format (earlier)", "Cause", "Is method", "Last loop"}

\* A constructor call: err = op(err, ...).  The caller builds its chain
\* first and inspects it afterwards.
Constructed(op, msg, f, result) ==
    /\ call.op \notin Inspections
    /\ Len(err) <= MaxDepth
    /\ err' = result
    /\ built' = built + (Len(result) - Len(err))
    /\ call' = Call(op, msg, f, NoTarget, Nil)
    /\ ret' = "none"
    /\ slot' = Nil
    /\ out' = NilMap
    /\ UNCHANGED maps

CallNew ==
    \E text \in Texts :
        /\ err = Nil
        /\ Constructed("New", text, NoFields, New(text))

\* The caller's own error values: &ErrTest{...}, &ErrHasFields{...}, &asErr{...}
CallerError ==
    \E kind \in {"ErrTest", "ErrHasFields", "asErr"}, text \in Texts,
       F \in LeafMapIds \cup {NoFields} :
        /\ err = Nil
        /\ F # NoFields => kind = "ErrHasFields"
        /\ Constructed(kind, text, F, << Node(kind, text, NoStack, F) >>)

CallWrap ==
    \E msg \in Msgs : Constructed("Wrap", msg, NoFields, Wrap(err, msg))

CallWrapf ==
    \E fa \in Formats :
        Constructed("Wrapf", Sprintf(fa[1], fa[2]), NoFields, Wrapf(err, fa[1], fa[2]))

CallDeprecatedWrap ==
    \E msg \in Msgs :
        Constructed("DeprecatedWrap", msg, NoFields, DeprecatedWrap(err, msg))

CallDeprecatedWrapf ==
    \E fa \in Formats :
        Constructed("DeprecatedWrapf", Sprintf(fa[1], fa[2]), NoFields,
                    DeprecatedWrapf(err, fa[1], fa[2]))

CallWithStack ==
    Constructed("WithStack", NoMsg, NoFields, WithStack(err))

CallFieldsWrap ==
    \E f \in ReceiverIds, msg \in Msgs :
        Constructed("WithFields.Wrap", msg, f, WithFields_Wrap(f, err, msg))

CallFieldsWrapf ==
    \E f \in ReceiverIds, fa \in Formats :
        Constructed("WithFields.Wrapf", Sprintf(fa[1], fa[2]), f,
                    WithFields_Wrapf(f, err, fa[1], fa[2]))

CallFieldsWithStack ==
    \E f \in ReceiverIds :
        Constructed("WithFields.WithStack", NoMsg, f, WithFields_WithStack(f, err))

CallFieldsError ==
    \E f \in ReceiverIds, text \in Texts :
        /\ err = Nil
        /\ Constructed("WithFields.Error", text, f, WithFields_Error(f, text))

CallFieldsErrorf ==
    \E f \in ReceiverIds, fa \in Formats :
        /\ err = Nil
        /\ Constructed("WithFields.Errorf", Sprintf(fa[1], fa[2]), f,
                       WithFields_Errorf(f, fa[1], fa[2]))

\* fmt.Errorf("m: %w", err) in the caller, as in the tests
CallFmtErrorf ==
    /\ err # Nil
    /\ Constructed("fmt.Errorf", "m", NoFields, FmtErrorf("m", err))

CallLast ==
    \E target \in Targets : \E prior \in Priors(target) :
        LET r == Last(err, target, prior)
        IN  /\ call.op \notin Inspections
            /\ call' = Call("Last", NoMsg, NoFields, target, prior)
            /\ ret' = r.ret
            /\ slot' = r.slot
            /\ out' = NilMap
            /\ UNCHANGED <<err, built, maps>>

CallAs ==
    \E target \in Targets : \E prior \in Priors(target) :
        LET r == As(err, target, prior)
        IN  /\ call.op \notin Inspections
            /\ call' = Call("As", NoMsg, NoFields, target, prior)
            /\ ret' = r.ret
            /\ slot' = r.slot
            /\ out' = NilMap
            /\ UNCHANGED <<err, built, maps>>

CallToMap ==
    /\ call.op \notin Inspections
    /\ call' = Call("ToMap", NoMsg, NoFields, NoTarget, Nil)
    /\ IF err = Nil
       THEN ret' = "panic: nil pointer dereference" /\ out' = NilMap
       ELSE ret' = "done" /\ out' = ToMap(err)
    /\ slot' = Nil
    /\ UNCHANGED <<err, built, maps>>

CallToLogrus ==
    /\ call.op \notin Inspections
    /\ call' = Call("ToLogrus", NoMsg, NoFields, NoTarget, Nil)
    /\ IF err = Nil
       THEN ret' = "panic: nil pointer dereference" /\ out' = NilMap
       ELSE ret' = "done" /\ out' = ToLogrus(err)
    /\ slot' = Nil
    /\ UNCHANGED <<err, built, maps>>

Next ==
    \/ CallNew
    \/ CallerError
    \/ CallWrap
    \/ CallWrapf
    \/ CallDeprecatedWrap
    \/ CallDeprecatedWrapf
    \/ CallWithStack
    \/ CallFieldsWrap
    \/ CallFieldsWrapf
    \/ CallFieldsWithStack
    \/ CallFieldsError
    \/ CallFieldsErrorf
    \/ CallFmtErrorf
    \/ CallLast
    \/ CallAs
    \/ CallToMap
    \/ CallToLogrus

Spec == Init /\ [][Next]_vars

-----------------------------------------------------------------------------
(* Vocabulary of the properties *)

\* The node at position i of a chain (head = 1), as the error value it is.
At(e, i) == SubSeq(e, i, Len(e))

Positions(e) == 1 .. Len(e)

WrappingOps ==
    {"Wrap", "Wrapf", "DeprecatedWrap", "DeprecatedWrapf", "WithStack",
     "WithFields.Wrap", "WithFields.Wrapf", "WithFields.WithStack"}

\* "An error matches target if the error's concrete value is assignable to the
\* value pointed to by target, or if the error has a method As(any) bool such
\* that As(target) returns true."
Matches(e, i, target) ==
    \/ AssignableTo(At(e, i), target.elem)
    \/ HasAsMethod(At(e, i)) /\ AsMethod(At(e, i), target, Nil).ok

MatchPositions(e, target) == {i \in Positions(e) : Matches(e, i, target)}

TypePositions(e, target) ==
    {i \in Positions(e) : AssignableTo(At(e, i), target.elem)}

Deepest(S) == CHOOSE i \in S : \A j \in S : j <= i

Nearest(S) == CHOOSE i \in S : \A j \in S : i <= j

\* What a matching node leaves in the target's variable: itself, or what its
\* As method stores.
Supplied(e, i, target) ==
    IF AssignableTo(At(e, i), target.elem) THEN At(e, i)
    ELSE AsMethod(At(e, i), target, Nil).slot

ValidCall(op) == call.op = op /\ TargetCheck(call.target) = "ok"

\* The positions of the nodes that expose a stack snapshot.
StackPositions(e) == {i \in Positions(e) : e[i].kind \in HasStackTraceKinds}

\* The field set a node carries itself.
OwnFields(n) ==
    IF n.kind \in {"withFields", "ErrHasFields"} /\ n.fields # NoFields
    THEN maps[n.fields] ELSE NilMap

\* The positions of the nodes whose own field set has key k.
KeyPositions(e, k) == {i \in Positions(e) : k \in DOMAIN OwnFields(e[i])}

Projected == call.op \in {"ToMap", "ToLogrus"} /\ err # Nil

-----------------------------------------------------------------------------
(* C1 *)

\* C1: every wrapping constructor (Wrap, Wrapf, WithStack, WithFields.Wrap,
\* WithFields.Wrapf, WithFields.WithStack; both Wrap/Wrapf variants) called
\* with a nil cause returns nil, whatever the message, format operands and
\* field set, and builds no node.
C1_NilCauseGivesNil ==
    [][(call'.op \in WrappingOps /\ err = Nil) => (err' = Nil /\ built' = built)]_vars

\* A field-set constructor with a message has been called on a nil cause.
C1_Witness ==
    /\ call.op \in {"WithFields.Wrap", "WithFields.Wrapf"}
    /\ call.msg # NoMsg
    /\ call.f # NoFields
    /\ err = Nil
    /\ built = 0

-----------------------------------------------------------------------------
(* C2 *)

\* C2: for every non-nil cause c and message m, Wrap(c, m).Error() is
\* m + ": " + c.Error() when m is non-empty and exactly c.Error() when m is
\* empty (stated of both Wrap functions of the sources).
C2_WrapError ==
    (call.op \in {"Wrap", "DeprecatedWrap"} /\ err # Nil) =>
        Error(err) = IF call.msg = NoMsg THEN Error(Tail(err))
                     ELSE call.msg \o ": " \o Error(Tail(err))

\* C2, supporting: the statement holds of the wrappedError Wrap alone.
C2_WrappedErrorOnly ==
    (call.op = "Wrap" /\ err # Nil) =>
        Error(err) = IF call.msg = NoMsg THEN Error(Tail(err))
                     ELSE call.msg \o ": " \o Error(Tail(err))

-----------------------------------------------------------------------------
(* C3 *)

\* C3: for every chain and valid target with at least one matching node, Last
\* returns true with the deepest matching node in the target, and As returns
\* true with the matching node nearest the head.
C3_LastDeepestAsNearest ==
    /\ (ValidCall("Last") /\ MatchPositions(err, call.target) # {}) =>
          /\ ret = "true"
          /\ slot = Supplied(err, Deepest(MatchPositions(err, call.target)), call.target)
    /\ (ValidCall("As") /\ MatchPositions(err, call.target) # {}) =>
          /\ ret = "true"
          /\ slot = Supplied(err, Nearest(MatchPositions(err, call.target)), call.target)

\* C3, supporting: the statement holds whenever the deepest matching node
\* matches by its type.
C3_TypeMatchesOnly ==
    /\ (ValidCall("Last") /\ TypePositions(err, call.target) # {}
        /\ Deepest(MatchPositions(err, call.target)) \in TypePositions(err, call.target)) =>
          /\ ret = "true"
          /\ slot = At(err, Deepest(TypePositions(err, call.target)))
    /\ (ValidCall("As") /\ TypePositions(err, call.target) # {}) =>
          /\ ret = "true"
          /\ slot = Supplied(err, Nearest(MatchPositions(err, call.target)), call.target)

\* C3, supporting: stack-bearing nodes at positions 1 and 3 only; Last has
\* yielded position 3.
C3_Positions13 ==
    /\ ValidCall("Last")
    /\ call.target.elem = "callstack.HasStackTrace"
    /\ StackPositions(err) = {1, 3}
    /\ slot = At(err, 3)

-----------------------------------------------------------------------------
(* C4 *)

\* C4: when no node of the chain matches the target, Last returns false and
\* the target's variable holds the value it held before the call.
C4_NotFoundKeepsSlot ==
    (ValidCall("Last") /\ MatchPositions(err, call.target) = {}) =>
        (ret = "false" /\ slot = call.prior)

\* Last has run over a chain of several nodes, none matching, with a value
\* from an earlier call in the variable.
C4_Witness ==
    /\ ValidCall("Last")
    /\ Len(err) >= 3
    /\ MatchPositions(err, call.target) = {}
    /\ call.prior # Nil
    /\ ret = "false"
    /\ slot = call.prior

-----------------------------------------------------------------------------
(* C5 *)

\* The targets the claim names: absent, not a pointer, a nil pointer, or a
\* pointer to a type that is neither an interface nor an error.
C5_Misused(target) ==
    \/ target.form \in {"nil", "nonptr", "nilptr"}
    \/ /\ target.form = "ptr"
       /\ target.elem \notin InterfaceTypes
       /\ target.elem \notin ErrorTypes

\* C5: Last panics, and returns neither true nor false, whenever the target is
\* absent, not a pointer, a nil pointer, or points to a type that is neither an
\* interface nor an error.
C5_MisuseFaults ==
    (call.op = "Last" /\ C5_Misused(call.target)) =>
        (ret \in Panics /\ ret \notin {"true", "false"})

\* Last has been called on a non-nil chain with a pointer to an int.
C5_Witness ==
    /\ call.op = "Last"
    /\ call.target = Target("ptr", "int")
    /\ Len(err) >= 2
    /\ ret = "panic: errors: *target must be interface or implement error"

-----------------------------------------------------------------------------
(* C6 *)

\* C6: when a key is in the own field sets of two nodes at different depths
\* and the merged map of ToMap (and of Fields() on a head that has it) holds
\* the key, the value is the one of the node nearer the leaf.
C6_DownstreamWins ==
    Projected =>
        \A k \in Keys :
            (Cardinality(KeyPositions(err, k)) >= 2 /\ k \in DOMAIN out) =>
                /\ out[k] = OwnFields(err[Deepest(KeyPositions(err, k))])[k]
                /\ err[1].kind \in HasFieldsKinds =>
                      (k \in DOMAIN Fields(err) =>
                          Fields(err)[k] = OwnFields(err[Deepest(KeyPositions(err, k))])[k])

\* C6, supporting: the precedence holds on every chain without a stack-only
\* (withStack) node.
C6_WithoutStackOnlyNodes ==
    (Projected /\ \A i \in Positions(err) : err[i].kind # "withStack") =>
        \A k \in Keys :
            Cardinality(KeyPositions(err, k)) >= 2 =>
                /\ k \in DOMAIN out
                /\ out[k] = OwnFields(err[Deepest(KeyPositions(err, k))])[k]

-----------------------------------------------------------------------------
(* C7 *)

\* C7: every key of the own field set of any node of the chain is a key of
\* ToMap(err), whatever nodes lie between the field-bearing nodes and the head.
C7_EveryKeyProjected ==
    Projected =>
        \A i \in Positions(err) : \A k \in DOMAIN OwnFields(err[i]) : k \in DOMAIN out

\* C7, supporting: every key is projected on every chain without a stack-only
\* (withStack) node.
C7_WithoutStackOnlyNodes ==
    (Projected /\ \A i \in Positions(err) : err[i].kind # "withStack") =>
        \A i \in Positions(err) : \A k \in DOMAIN OwnFields(err[i]) : k \in DOMAIN out

-----------------------------------------------------------------------------
(* C8 *)

-----------------------------------------------------------------------------
(* C9 *)

\* C9 as stated: for every chain, excType of ToMap/ToLogrus is the type name of
\* the innermost leaf (single-step unwrap repeated until it yields nil).
C9_TypeOfInnermostLeaf ==
    Projected => out["excType"] = TypeName(Innermost(err))

\* C9 as amended: excType of ToMap/ToLogrus is the type name of the head's
\* immediate cause: "<nil>" for an error with no cause, otherwise the type of
\* the second node of the chain (the leaf only when the chain has two nodes).
C9_TypeOfImmediateCause ==
    Projected =>
        out["excType"] = IF Len(err) = 1 THEN "<nil>" ELSE TypeName(At(err, 2))

\* ToMap has projected a chain of three or more nodes and excType names the
\* second node, not the leaf.
C9_Witness ==
    /\ call.op = "ToMap"
    /\ Len(err) >= 3
    /\ out["excType"] = TypeName(At(err, 2))
    /\ out["excType"] # TypeName(Innermost(err))

-----------------------------------------------------------------------------
(* C10 *)

\* C10: when several nodes expose a stack snapshot, excFuncName, excLineNum
\* and excFileName of ToMap and ToLogrus are those of the origin frame of the
\* snapshot captured by the stack-bearing node nearest the leaf.
C10_FrameOfDeepestStack ==
    (Projected /\ Cardinality(StackPositions(err)) >= 2) =>
        LET origin == err[Deepest(StackPositions(err))].stack[1]
        IN  /\ StackKeys \subseteq DOMAIN out
            /\ out["excFuncName"] = origin.Func
            /\ out["excLineNum"] = origin.LineNo
            /\ out["excFileName"] = origin.File

\* ToMap has projected a chain whose stack-bearing nodes are at positions 1
\* and 3, with different call sites.
C10_Witness ==
    /\ call.op = "ToMap"
    /\ StackPositions(err) = {1, 3}
    /\ err[1].stack[1].LineNo # err[3].stack[1].LineNo
    /\ out["excLineNum"] = err[3].stack[1].LineNo

-----------------------------------------------------------------------------
(* C11 *)

\* C11: for every non-nil error ToLogrus(err) and ToMap(err) have the same keys
\* with the same values.
C11_ToLogrusEqualsToMap ==
    /\ (call.op = "ToLogrus" /\ err # Nil) => out = ToMap(err)
    /\ (call.op = "ToMap" /\ err # Nil) => out = ToLogrus(err)

\* ToLogrus has projected a chain of three or more nodes whose head has neither
\* stack nor fields, with frame keys and a field key in the result.
C11_Witness ==
    /\ call.op = "ToLogrus"
    /\ Len(err) >= 3
    /\ err[1].kind = "wrapError"
    /\ StackKeys \subseteq DOMAIN out
    /\ "a" \in DOMAIN out
    /\ out = ToMap(err)

-----------------------------------------------------------------------------
(* Reads of a built chain, and the caller's writes to the maps it holds *)

\* The types with an Is(target error) bool method; each asserts that the
\* target has the receiver's own type.
HasIsMethod(e) ==
    e[1].kind \in {"wrappedError", "withStack", "withFields", "ErrTest", "ErrHasFields"}

\* An Is method that also compares the messages of the two nodes.
IsMethod_ComparesMessage(e, v) ==
    TypeName(v) = TypeName(e) /\ v[1].msg = e[1].msg

IsMethod(e, v) == TypeName(v) = TypeName(e)

RECURSIVE IsLoop(_, _, _)
\* The loop of the standard errors.Is.  form says what the target is: "leaf",
\* the very value at the end of the chain, or "value", a value of the
\* caller's own (pointers: equal to no node of the chain).
IsLoop(e, form, v) ==
    IF e = Nil THEN FALSE
    ELSE IF form = "leaf" /\ Len(e) = 1 THEN TRUE
    ELSE IF HasIsMethod(e) /\ IsMethod(e, v) THEN TRUE
    ELSE IsLoop(Unwrap(e), form, v)

\* errors.Is that consults only the Is methods.
Is_MethodsOnly(e, form, v) ==
    IF e = Nil \/ v = Nil THEN e = v
    ELSE \E i \in 1 .. Len(e) :
            HasIsMethod(SubSeq(e, i, Len(e))) /\ IsMethod(SubSeq(e, i, Len(e)), v)

\* Is(err, target), the standard errors.Is
Is(e, form, v) ==
    IF e = Nil \/ v = Nil THEN e = v
    ELSE IsLoop(e, form, v)

\* The map a Fields() call returns: nil, a map made by the call ("fresh"), or
\* the map with this id itself ("backing").
Storage(kind, id) == [kind |-> kind, id |-> id]

RECURSIVE FieldsStorage(_)
FieldsStorage(e) ==
    CASE e[1].kind = "withFields" -> Storage("fresh", NoFields)
      [] e[1].kind = "withStack" ->
            IF Tail(e)[1].kind \in HasFieldsKinds THEN FieldsStorage(Tail(e))
            ELSE Storage("nil", NoFields)
      [] e[1].kind = "ErrHasFields" ->
            IF e[1].fields = NoFields THEN Storage("nil", NoFields)
            ELSE Storage("backing", e[1].fields)

\* Fields that merges the child's entries into the receiver map itself
\* (result := c.fields in place of the copy).
FieldsEffect_MergesIntoOwn(e) ==
    IF e[1].kind = "withFields" THEN [maps EXCEPT ![e[1].fields] = Fields(e)]
    ELSE maps

\* The caller's maps after a Fields() call: withFields.Fields writes only into
\* result, the map it makes; withStack.Fields and ErrHasFields.Fields write
\* nothing.
FieldsEffect(e) == maps

\* m[k] = v and delete(m, k) on a Go map
SetKey(m, k, v) == MergeOver(m, [x \in {k} |-> v])

DeleteKey(m, k) == [x \in (DOMAIN m) \ {k} |-> m[x]]

\* A read of the chain: what it returns goes to ret, slot or out.
Returned(op, msg, f, target, prior, r, s, o) ==
    /\ call.op \notin Inspections
    /\ err # Nil
    /\ call' = Call(op, msg, f, target, prior)
    /\ ret' = r
    /\ slot' = s
    /\ out' = o
    /\ UNCHANGED <<err, built>>

\* u := errors.Unwrap(err); call.f counts the applications.
CallUnwrap ==
    /\ Returned("Unwrap", NoMsg, 1, NoTarget, Nil, "done", Unwrap(err), NilMap)
    /\ UNCHANGED maps

\* u = errors.Unwrap(u)
CallUnwrapAgain ==
    /\ call.op = "Unwrap"
    /\ slot # Nil
    /\ call' = [call EXCEPT !.f = @ + 1]
    /\ slot' = Unwrap(slot)
    /\ UNCHANGED <<err, built, maps, ret, out>>

\* The values a caller passes to Is: the leaf of the chain itself (as io.EOF in
\* the tests), or a value of its own.
IsValues ==
    { << Node("ErrTest", "", NoStack, NoFields) >>,
      New("e"),
      << Node("wrappedError", "m", CallstackNew(0), NoFields) >> \o New("e") }

CallIs ==
    \/ Returned("Is", NoMsg, NoFields, Target("leaf", TypeName(At(err, Len(err)))),
                At(err, Len(err)),
                IF Is(err, "leaf", At(err, Len(err))) THEN "true" ELSE "false",
                Nil, NilMap)
       /\ UNCHANGED maps
    \/ \E v \in IsValues :
          /\ Returned("Is", NoMsg, NoFields, Target("value", TypeName(v)), v,
                      IF Is(err, "value", v) THEN "true" ELSE "false", Nil, NilMap)
          /\ UNCHANGED maps

\* var t *T; errors.As(err, &t) with T the type of the chain's leaf
CallAsLeaf ==
    LET target == Target("ptr", TypeName(At(err, Len(err))))
        r == As(err, target, Nil)
    IN  /\ err # Nil
        /\ Returned("As", NoMsg, NoFields, target, Nil, r.ret, r.slot, NilMap)
        /\ UNCHANGED maps

\* m := err.(HasFields).Fields()
CallFields ==
    /\ err # Nil
    /\ err[1].kind \in HasFieldsKinds
    /\ Returned("Fields", NoMsg, NoFields, NoTarget, Nil, "done", Nil, Fields(err))
    /\ maps' = FieldsEffect(err)

\* st := err.(callstack.HasStackTrace).StackTrace()
CallStackTrace ==
    /\ err # Nil
    /\ err[1].kind \in HasStackTraceKinds
    /\ Returned("StackTrace", NoMsg, NoFields, NoTarget, Nil, "done", Nil, StackTrace(err))
    /\ UNCHANGED maps

\* m[k] = "new" on the map a Fields() call returned (a nil map is not written)
CallerWritesReturned ==
    \E k \in Keys :
        LET st == FieldsStorage(err)
        IN  /\ call.op = "Fields"
            /\ st.kind # "nil"
            /\ call' = Call("fields[k] = v", k, st.id, NoTarget, Nil)
            /\ out' = SetKey(out, k, "new")
            /\ maps' = IF st.kind = "backing"
                        THEN [maps EXCEPT ![st.id] = SetKey(@, k, "new")]
                        ELSE maps
            /\ UNCHANGED <<err, built, ret, slot>>

\* before := ToMap(err); m[k] = "new", with m a map the caller used as a
\* WithFields receiver
CallerSetsKey ==
    \E m \in ReceiverIds, k \in Keys :
        /\ Returned("m[k] = v", k, m, NoTarget, Nil, "done", Nil, ToMap(err))
        /\ maps' = [maps EXCEPT ![m] = SetKey(@, k, "new")]

\* before := ToMap(err); delete(m, k)
CallerDeletesKey ==
    \E m \in ReceiverIds, k \in Keys :
        /\ Returned("delete(m, k)", k, m, NoTarget, Nil, "done", Nil, ToMap(err))
        /\ maps' = [maps EXCEPT ![m] = DeleteKey(@, k)]

Construct ==
    \/ CallNew
    \/ CallerError
    \/ CallWrap
    \/ CallWrapf
    \/ CallDeprecatedWrap
    \/ CallDeprecatedWrapf
    \/ CallWithStack
    \/ CallFieldsWrap
    \/ CallFieldsWrapf
    \/ CallFieldsWithStack
    \/ CallFieldsError
    \/ CallFieldsErrorf
    \/ CallFmtErrorf

NextFrame ==
    \/ Construct
    \/ CallUnwrap
    \/ CallUnwrapAgain
    \/ CallIs
    \/ CallAsLeaf
    \/ CallFields
    \/ CallStackTrace
    \/ CallerWritesReturned
    \/ CallerSetsKey
    \/ CallerDeletesKey
    \/ CallLast
    \/ CallToMap

\* The caller builds a chain, then reads it or writes to a map it holds.
SpecFrame == Init /\ [][NextFrame]_vars

-----------------------------------------------------------------------------
(* C12 *)

ReceiverWrites == {"m[k] = v", "delete(m, k)"}

\* The positions of the nodes built with map m as the receiver.
BuiltWith(e, m) == {i \in Positions(e) : e[i].kind = "withFields" /\ e[i].fields = m}

\* C12: after the caller adds, changes or deletes a key in a map it used as a
\* WithFields receiver, ToMap (and Fields() of a head that has it) report what
\* they reported before the write.
C12_ReceiverWriteUnseen ==
    call.op \in ReceiverWrites => ToMap(err) = out

\* C12, supporting: a write to a map that no node of the chain was built with
\* changes nothing.
C12_OtherMapsOnly ==
    (call.op \in ReceiverWrites /\ BuiltWith(err, call.f) = {}) => ToMap(err) = out

-----------------------------------------------------------------------------
(* C13 *)

\* C13: a write to the map that Fields() of a node of this library (withFields,
\* withStack) returned changes no map held by a node or a field-exposing leaf
\* of the chain, so a later Fields()/ToMap call reports what it did before.
C13_ReturnedMapIsCopy ==
    (call.op = "fields[k] = v" /\ err[1].kind \in {"withFields", "withStack"}) =>
        maps = InitMaps

\* C13, supporting: the map returned by a withFields head is a copy.
C13_WithFieldsReturnsCopy ==
    (call.op = "fields[k] = v" /\ err[1].kind = "withFields") => maps = InitMaps

-----------------------------------------------------------------------------
(* C14 *)

ReadOps == {"Unwrap", "Is", "As", "Last", "Fields", "StackTrace", "ToMap"}

-----------------------------------------------------------------------------
(* C15 *)

\* C15: on a chain of N wrappers over a leaf, N applications of Unwrap yield
\* the leaf itself and fewer than N never yield nil.
C15_UnwrapReachesLeaf ==
    call.op = "Unwrap" =>
        LET N == Len(err) - 1
        IN  /\ call.f < N => slot # Nil
            /\ call.f = N => slot = At(err, Len(err))

\* Unwrap has been applied three times to a withFields node over a withStack
\* node over a wrappedError node over a leaf.
C15_Witness ==
    /\ call.op = "Unwrap"
    /\ call.f = 3
    /\ Len(err) = 4
    /\ err[1].kind = "withFields"
    /\ err[2].kind = "withStack"
    /\ err[3].kind = "wrappedError"
    /\ slot = At(err, 4)

-----------------------------------------------------------------------------
(* C16 *)

\* C16: for every leaf c and every chain built over it, Is(chain, c) is true
\* and As(chain, &t), with t of c's type, succeeds and yields c.
C16_CauseStaysMatchable ==
    /\ (call.op = "Is" /\ call.target.form = "leaf") => ret = "true"
    /\ (call.op = "As" /\ call.target = Target("ptr", TypeName(At(err, Len(err))))) =>
          (ret = "true" /\ slot = At(err, Len(err)))

\* Is has found the errors.New leaf of a chain of four nodes, none of which
\* has an Is method that accepts it.
C16_Witness ==
    /\ call.op = "Is"
    /\ call.target.form = "leaf"
    /\ Len(err) = 4
    /\ err[4].kind = "errorString"
    /\ {err[i].kind : i \in 1 .. 3} = {"withFields", "withStack", "wrappedError"}
    /\ ret = "true"

-----------------------------------------------------------------------------
(* Rendering: what Format writes to the fmt.State for a verb *)

\* The output is the sequence of the pieces written: texts, and the frame
\* references that the stack listing writes.
Text(str) == [kind |-> "text", text |-> str, line |-> 0]

FrameRef(fr) == [kind |-> "frame", text |-> fr.Func \o " " \o fr.File, line |-> fr.LineNo]

\* CallStack.Format for %+v: one reference per captured frame.
StackListing(stack) == [i \in 1 .. Len(stack) |-> FrameRef(stack[i])]

\* The verbs a caller formats an error with: %s, %v, %+v, %q.
Verbs == {"s", "v", "+v", "q"}

\* fmt's %q of a string without characters to escape.
Quote(str) == "\"" \o str \o "\""

RECURSIVE Listings(_)
\* for key, value := range fields { ... "%+v=%+v" ... } joined by ", ": one
\* listing for each order in which the range may visit the keys.
Listings(m) ==
    IF DOMAIN m = {} THEN {""}
    ELSE UNION { { k \o "=" \o m[k] \o (IF rest = "" THEN "" ELSE ", " \o rest) :
                     rest \in Listings([x \in (DOMAIN m) \ {k} |-> m[x]]) } :
                 k \in DOMAIN m }

\* FormatFields that lists the merged set of Fields().
FormatFields_Merged(e) == Listings(Fields(e))

\* withFields.FormatFields: the node's own c.fields
FormatFields(e) == Listings(maps[e[1].fields])

RECURSIVE FormatBy(_, _, _)
\* The Format method of each node type, and fmt's handling of an error without
\* one.  variant selects the withFields.Format of the later or of the earlier
\* fields.go.
FormatBy(variant, e, verb) ==
    CASE e[1].kind = "wrappedError" -> { << Text(Error(e)) >> }
      [] e[1].kind = "withFields" ->
            IF verb = "+v" \/ (variant = "earlier" /\ verb = "v")
            THEN { (IF e[1].msg = "" THEN <<>> ELSE << Text(e[1].msg), Text(": ") >>)
                     \o c \o << Text(" ("), Text(l), Text(")") >> :
                     c \in FormatBy(variant, Tail(e), "+v"), l \in FormatFields(e) }
            ELSE { << Text(Error(e)) >> }
      [] e[1].kind = "withStack" ->
            IF verb = "+v"
            THEN { c \o StackListing(e[1].stack) : c \in FormatBy(variant, Tail(e), "+v") }
            ELSE IF verb = "q" THEN { << Text(Quote(Error(e))) >> }
            ELSE { << Text(Error(e)) >> }
      [] OTHER ->
            IF verb = "q" THEN { << Text(Quote(Error(e))) >> } ELSE { << Text(Error(e)) >> }

\* Format in which a wrappedError passes %+v on to its cause.
Format_WrappedVerbose(e, verb) ==
    IF e[1].kind = "wrappedError" /\ verb = "+v"
    THEN { (IF e[1].msg = NoMsg THEN <<>> ELSE << Text(e[1].msg), Text(": ") >>) \o c :
             c \in FormatBy("later", Tail(e), "+v") }
    ELSE FormatBy("later", e, verb)

\* fmt.Sprintf("%<verb>", err) with the Format methods of part_001, stack.go
\* and the later fields.go
Format(e, verb) == FormatBy("later", e, verb)

\* The same with the withFields.Format of the earlier fields.go
Format_Earlier(e, verb) == FormatBy("earlier", e, verb)

\* s := err.Error()
CallError ==
    /\ Returned("Error", NoMsg, NoFields, NoTarget, Nil, Error(err), Nil, NilMap)
    /\ UNCHANGED maps

\* s := fmt.Sprintf("%<verb>", err)
CallFormat ==
    \E verb \in Verbs :
        /\ err # Nil
        /\ \E r \in Format(err, verb) :
              Returned("Format", verb, NoFields, NoTarget, Nil, "done", Nil, r)
        /\ UNCHANGED maps

CallFormatEarlier ==
    \E verb \in Verbs :
        /\ err # Nil
        /\ \E r \in Format_Earlier(err, verb) :
              Returned("Format (earlier)", verb, NoFields, NoTarget, Nil, "done", Nil, r)
        /\ UNCHANGED maps

\* t := fmt.Sprintf("%<verb>", err), the same call a second time; call.f marks
\* it and the second output goes to slot.
CallFormatAgain ==
    /\ call.op = "Format"
    /\ call.f = NoFields
    /\ call' = [call EXCEPT !.f = 1]
    /\ \E r \in Format(err, call.msg) : slot' = r
    /\ UNCHANGED <<err, built, maps, ret, out>>

NextRender ==
    \/ Construct
    \/ CallError
    \/ CallFormat
    \/ CallFormatEarlier
    \/ CallFormatAgain

\* The caller builds a chain, then renders it.
SpecRender == Init /\ [][NextRender]_vars

-----------------------------------------------------------------------------
(* Vocabulary of the rendering properties *)

RECURSIVE Flat(_)
\* The string a rendering amounts to.
Flat(r) == IF r = <<>> THEN "" ELSE r[1].text \o Flat(Tail(r))

HasFrame(r) == \E i \in 1 .. Len(r) : r[i].kind = "frame"

\* message + ": " in front of a cause's rendering, nothing for an empty message
Prefixed(msg, r) == IF msg = NoMsg THEN r ELSE << Text(msg), Text(": ") >> \o r

NodeVariants == {"wrappedError", "withStack", "withFields"}

DeprecatedOps == {"DeprecatedWrap", "DeprecatedWrapf"}

\* Wrap(WithStack(leaf), msg) with a non-empty msg, by either Wrap of the sources
WrapOfWithStack(e) ==
    /\ Len(e) = 3
    /\ e[1].kind \in {"wrappedError", "wrapError"}
    /\ e[1].msg \in {"m", "m: " \o Error(Tail(e))}
    /\ e[2].kind = "withStack"
    /\ e[3].kind \in LeafKinds

-----------------------------------------------------------------------------
(* C17 *)

\* C17: Error() of a node with a non-empty message is message + ": " +
\* cause.Error() and Error() of a node with no message is exactly
\* cause.Error(), for the node every wrapping constructor of the library
\* builds, so that no rendering has an empty segment or a doubled separator.
C17_ShortRendering ==
    /\ (call.op \in WrappingOps /\ err # Nil) =>
          Error(err) = IF call.msg = NoMsg THEN Error(Tail(err))
                       ELSE call.msg \o ": " \o Error(Tail(err))
    /\ (call.op = "Error" /\ err[1].kind \in NodeVariants) =>
          ret = IF err[1].msg = NoMsg THEN Error(Tail(err))
                ELSE err[1].msg \o ": " \o Error(Tail(err))

\* C17, supporting: the statement holds of the nodes the library defines
\* (wrappedError, withStack, withFields), whatever lies below them.
C17_NodeVariantsOnly ==
    /\ (call.op \in WrappingOps \ DeprecatedOps /\ err # Nil) =>
          Error(err) = IF call.msg = NoMsg THEN Error(Tail(err))
                       ELSE call.msg \o ": " \o Error(Tail(err))
    /\ (call.op = "Error" /\ err[1].kind \in NodeVariants) =>
          ret = IF err[1].msg = NoMsg THEN Error(Tail(err))
                ELSE err[1].msg \o ": " \o Error(Tail(err))

-----------------------------------------------------------------------------
(* C18 *)

\* C18, first half: for every node variant the %v rendering without the flag
\* is the short rendering, with no field listing.
C18_PlainValueIsShort ==
    (call.op \in {"Format", "Format (earlier)"} /\ call.msg = "v"
     /\ err[1].kind \in NodeVariants) =>
        out = << Text(Error(err)) >>

\* The %+v rendering of a node of these kinds is the verbose one: the message
\* and ": " when there is a message, then the cause's verbose rendering, then
\* the node's own field listing or stack listing.
VerboseFor(kinds) ==
    (call.op = "Format" /\ call.msg = "+v" /\ err[1].kind \in kinds) =>
        \E c \in Format(Tail(err), "+v") :
            CASE err[1].kind = "wrappedError" ->
                    Flat(out) = Flat(Prefixed(err[1].msg, c))
              [] err[1].kind = "withStack" ->
                    Flat(out) = Flat(c \o StackListing(err[1].stack))
              [] err[1].kind = "withFields" ->
                    \E l \in Listings(OwnFields(err[1])) :
                        Flat(out) = Flat(Prefixed(err[1].msg, c)
                                           \o << Text(" ("), Text(l), Text(")") >>)

\* C18, second half: for every node variant the %+v rendering is the verbose
\* rendering.
C18_FlaggedValueIsVerbose == VerboseFor(NodeVariants)

\* C18: %v without the flag is the short rendering and %+v is the verbose one.
C18_ValueRendering == C18_PlainValueIsShort /\ C18_FlaggedValueIsVerbose

\* C18, supporting: with the later withFields.Format, %v without the flag is
\* the short rendering for every node variant.
C18_LaterPlainValueIsShort ==
    (call.op = "Format" /\ call.msg = "v" /\ err[1].kind \in NodeVariants) =>
        out = << Text(Error(err)) >>

\* C18, supporting: %+v of withStack and withFields nodes is the verbose
\* rendering.
C18_StackAndFieldsVerbose == VerboseFor({"withStack", "withFields"})

-----------------------------------------------------------------------------
(* C19 *)

\* C19: %+v of a field-bearing node is the message and ": " (only for a
\* non-empty message), then the cause's %+v rendering, then " (", the
\* comma-joined key=value pairs of the node's own field set, and ")".
C19_VerboseOfFieldNode ==
    /\ (call.op = "Format" /\ call.msg = "+v" /\ err[1].kind = "withFields") =>
          \E c \in Format(Tail(err), "+v"), l \in Listings(OwnFields(err[1])) :
              out = Prefixed(err[1].msg, c) \o << Text(" ("), Text(l), Text(")") >>
    /\ (call.op = "Format (earlier)" /\ call.msg = "+v" /\ err[1].kind = "withFields") =>
          \E c \in Format_Earlier(Tail(err), "+v"), l \in Listings(OwnFields(err[1])) :
              out = Prefixed(err[1].msg, c) \o << Text(" ("), Text(l), Text(")") >>

\* %+v has rendered a node built with {a: v1} over a node built with
\* {a: v2, b: v2}: the outer listing is a=v1 alone.
C19_Witness ==
    /\ call.op = "Format"
    /\ call.msg = "+v"
    /\ Len(err) >= 3
    /\ err[1].kind = "withFields" /\ err[1].fields = 1 /\ err[1].msg # NoMsg
    /\ err[2].kind = "withFields" /\ err[2].fields = 2
    /\ out[Len(out) - 1] = Text("a=v1")
    /\ out[1] = Text(err[1].msg)

-----------------------------------------------------------------------------
(* C20 *)

\* C20: %+v of Wrap(WithStack(leaf), "ctx") has at least one frame reference
\* (and the leaf's text); its short rendering is the text chain and has none.
C20_VerboseHasFrame ==
    (call.op = "Format" /\ WrapOfWithStack(err)) =>
        /\ call.msg = "+v" => HasFrame(out)
        /\ call.msg = "s" => (~HasFrame(out) /\ Flat(out) = "m: " \o err[3].msg)

\* C20, supporting: the short rendering is the text chain without frames.
C20_ShortHasNoFrame ==
    (call.op = "Format" /\ WrapOfWithStack(err) /\ call.msg = "s") =>
        (~HasFrame(out) /\ Flat(out) = "m: " \o err[3].msg)

-----------------------------------------------------------------------------
(* C21 *)

\* A leaf that exposes neither a stack nor fields.
PlainLeaf(e) ==
    /\ Len(e) = 1
    /\ e[1].kind \notin HasStackTraceKinds
    /\ e[1].kind \notin HasFieldsKinds

FiveKeys == {"excValue", "excType", "excFuncName", "excLineNum", "excFileName"}

\* ToMap is called on what op(c, ...) returned for a plain leaf c.
ToMapOfWrapped(ops) ==
    /\ call.op \in ops
    /\ Len(err) = 2
    /\ PlainLeaf(Tail(err))
    /\ call'.op = "ToMap"

\* C21: for every non-nil leaf c that exposes neither a stack nor fields,
\* ToMap(Wrap(c, m)) and ToMap(Wrapf(c, ...)) have exactly the five keys
\* excValue, excType, excFuncName, excLineNum and excFileName (stated of both
\* Wrap/Wrapf pairs of the sources).
C21_WrapAttachesStack ==
    [][ToMapOfWrapped({"Wrap", "Wrapf", "DeprecatedWrap", "DeprecatedWrapf"})
          => DOMAIN out' = FiveKeys]_vars

\* C21, supporting: the statement holds of the Wrap and Wrapf that build a
\* wrappedError.
C21_WrappedErrorOnly ==
    [][ToMapOfWrapped({"Wrap", "Wrapf"}) => DOMAIN out' = FiveKeys]_vars

-----------------------------------------------------------------------------
(* C22 *)

\* C22: WithFields.Error(text) and WithFields.Errorf(format, args) never
\* return nil; Error() of the result is exactly the text (the formatted text),
\* with no prefix or separator, and ToMap of it has every key and value of the
\* field set and the stack keys.
C22_FieldSetError ==
    call.op \in {"WithFields.Error", "WithFields.Errorf"} =>
        /\ err # Nil
        /\ Error(err) = call.msg
        /\ \A k \in DOMAIN maps[call.f] :
              k \in DOMAIN ToMap(err) /\ ToMap(err)[k] = maps[call.f][k]
        /\ StackKeys \subseteq DOMAIN ToMap(err)

\* WithFields{a: v2, b: v2}.Error("e") has returned a node whose Error() is "e".
C22_Witness ==
    /\ call.op = "WithFields.Error"
    /\ call.f = 2
    /\ call.msg = "e"
    /\ Len(err) = 2
    /\ Error(err) = "e"
    /\ ToMap(err)["b"] = "v2"

-----------------------------------------------------------------------------
(* Compatibility with callers of github.com/pkg/errors *)

\* The node types with a Cause() error method: withStack has Unwrap, Is,
\* Fields, Format and the methods promoted from its embedded error and
\* *callstack.CallStack; withFields and wrappedError have Unwrap, Is, Error,
\* StackTrace, Format (and Fields, FormatFields).  None declares Cause.
CauserKinds == {}

RECURSIVE PkgErrorCause(_)
\* pkgErrorCause: for err != nil { cause, ok := err.(causer); if !ok { break };
\* err = cause.Cause() }; a Cause method returns the node's wrapped error.
PkgErrorCause(e) ==
    IF e = Nil THEN Nil
    ELSE IF e[1].kind \notin CauserKinds THEN e
    ELSE PkgErrorCause(Tail(e))

\* c := pkgErrorCause(err)
CallCause ==
    /\ Returned("Cause", NoMsg, NoFields, NoTarget, Nil, "done", PkgErrorCause(err), NilMap)
    /\ UNCHANGED maps


\* Values of the caller's own that it passes as the target of Is: one of each
\* node type, built over a cause of their own, and errors of other types.
IsTargets ==
    IsValues \cup
    { << Node("withStack", NoMsg, CallstackNew(0), NoFields) >> \o New("other"),
      << Node("withFields", "x", CallstackNew(0), 2) >> \o New("other"),
      << Node("withFields", NoMsg, CallstackNew(0), 1) >> \o New("e"),
      << Node("wrappedError", NoMsg, CallstackNew(0), NoFields) >> \o New("other"),
      FmtErrorf("m", New("e")) }

\* ok := err.(interface{ Is(error) bool }).Is(v), on a head that has the method
CallIsMethod ==
    \E v \in IsTargets \cup {Nil} :
        /\ err # Nil
        /\ HasIsMethod(err)
        /\ Returned("Is method", NoMsg, NoFields, Target("value", TypeName(v)), v,
                    IF IsMethod(err, v) THEN "true" ELSE "false", Nil, NilMap)
        /\ UNCHANGED maps

\* ok := errors.Is(err, v)
CallIsWith ==
    \E v \in IsTargets :
        /\ Returned("Is", NoMsg, NoFields, Target("value", TypeName(v)), v,
                    IF Is(err, "value", v) THEN "true" ELSE "false", Nil, NilMap)
        /\ UNCHANGED maps

NextCompat ==
    \/ Construct
    \/ CallCause
    \/ CallIsMethod
    \/ CallIsWith

\* The caller builds a chain, then asks for its cause or compares it.
SpecCompat == Init /\ [][NextCompat]_vars

-----------------------------------------------------------------------------
(* C23 *)

\* WithStack(c) or WithFields.Wrap(c, msg) with c a leaf.
OverLeaf(e) ==
    /\ Len(e) = 2
    /\ e[1].kind \in {"withStack", "withFields"}

\* C23: for an error built by WithStack or by WithFields.Wrap over a leaf c,
\* following Cause() until an error lacks it ends at c itself.
C23_CauseEndsAtLeaf ==
    (call.op = "Cause" /\ OverLeaf(err)) => slot = Tail(err)

\* C23, supporting: the walk stops at the error it was given.
C23_CauseStopsAtHead ==
    call.op = "Cause" => slot = err

-----------------------------------------------------------------------------
(* C24 *)

\* C24: the Is method of each node variant is true exactly when the target is
\* a node of the same variant, whatever the messages, causes, stacks and
\* fields of the two; hence Is(x, y) is true for every chain x with a node of
\* y's variant, even when x and y share no cause.
C24_IsByVariantKind ==
    /\ (call.op = "Is method" /\ err[1].kind \in NodeVariants) =>
          (ret = "true" <=> (call.prior # Nil /\ call.prior[1].kind = err[1].kind))
    /\ (call.op = "Is" /\ call.target.form = "value"
        /\ call.prior[1].kind \in NodeVariants
        /\ \E i \in Positions(err) : err[i].kind = call.prior[1].kind) =>
          ret = "true"

\* Is has answered true for a withFields target with another message, field
\* set and cause than the withFields node at the second position of the chain.
C24_Witness ==
    /\ call.op = "Is"
    /\ call.prior = << Node("withFields", "x", CallstackNew(0), 2) >> \o New("other")
    /\ Len(err) = 3
    /\ err[1].kind = "wrapError"
    /\ err[2].kind = "withFields" /\ err[2].fields = 1 /\ err[2].msg = NoMsg
    /\ err[3].kind = "ErrTest"
    /\ ret = "true"

-----------------------------------------------------------------------------
(* C25 *)

\* The last position of the run of directly nested stack-bearing nodes that
\* starts at the head.
RunEnd(e) ==
    CHOOSE i \in Positions(e) :
        /\ \A j \in 1 .. i : e[j].kind \in HasStackTraceKinds
        /\ i = Len(e) \/ e[i + 1].kind \notin HasStackTraceKinds

\* StackTrace() of a wrappedError or withFields head is its immediate cause's
\* when the cause exposes a stack, its own snapshot otherwise.
DefersToCause ==
    (call.op = "StackTrace" /\ err[1].kind \in {"wrappedError", "withFields"}) =>
        out = IF err[2].kind \in HasStackTraceKinds
              THEN StackTrace(Tail(err)) ELSE err[1].stack

\* The origin frame of WithFields.Wrap(WithStack(leaf), m) is the call site
\* of WithStack.
OriginIsStackCallSite ==
    (call.op = "StackTrace" /\ Len(err) = 3 /\ err[1].kind = "withFields"
     /\ err[2].kind = "withStack") =>
        /\ GetLastFrame(out) = err[2].stack[1]
        /\ GetLastFrame(out).LineNo = 2

\* C25: StackTrace() of a message node or field node is its immediate
\* cause's StackTrace() when the cause exposes a stack and its own snapshot
\* otherwise; so every node of a run of directly nested stack-bearing nodes
\* reports the stack of the deepest node of the run, and the origin frame of
\* WithFields.Wrap(WithStack(leaf), m) is the call site of WithStack.  The
\* statement about runs is taken for the message and field nodes at the head
\* of a run only.
C25_StackOfDeepestInRun ==
    /\ DefersToCause
    /\ (call.op = "StackTrace" /\ err[1].kind \in {"wrappedError", "withFields"}) =>
          out = err[RunEnd(err)].stack
    /\ OriginIsStackCallSite

\* C25, supporting: the statement about message and field nodes and the one
\* about WithFields.Wrap(WithStack(leaf), m) hold, and every run that has no
\* withStack node above its last node reports the stack of its deepest node.
C25_WithoutStackOnlyInside ==
    /\ DefersToCause
    /\ (call.op = "StackTrace"
        /\ \A j \in 1 .. RunEnd(err) - 1 : err[j].kind # "withStack") =>
          out = err[RunEnd(err)].stack
    /\ OriginIsStackCallSite

-----------------------------------------------------------------------------
(* C26 *)

\* C26: for every node built by Wrap or Wrapf (both pairs of the sources) the
\* %s, %v and %+v renderings are identical to Error(): the verbose flag adds
\* neither stack frames nor a field listing.
C26_WrapRendersShort ==
    (call.op \in {"Format", "Format (earlier)"} /\ call.msg \in {"s", "v", "+v"}
     /\ err[1].kind \in {"wrappedError", "wrapError"}) =>
        (out = << Text(Error(err)) >> /\ ~HasFrame(out))

\* %+v has rendered a wrappedError with a message over a withStack node over
\* a withFields node: the text alone, neither frames nor fields.
C26_Witness ==
    /\ call.op = "Format"
    /\ call.msg = "+v"
    /\ Len(err) = 4
    /\ err[1].kind = "wrappedError" /\ err[1].msg = "m"
    /\ err[2].kind = "withStack"
    /\ err[3].kind = "withFields" /\ err[3].msg = "m"
    /\ out = << Text("m: m: e") >>

-----------------------------------------------------------------------------
(* C30 *)

FormattedTwice == call.op = "Format" /\ call.f = 1 /\ call.msg = "+v"

\* The largest number of keys in the own field set of a node of the chain.
WidestFieldSet(e) ==
    Deepest({0} \cup {Cardinality(DOMAIN OwnFields(e[i])) : i \in Positions(e)})

\* C30: formatting the same node twice with %+v gives the same string, for
\* field sets of any size (the order of the key=value pairs does not vary
\* between the calls).
C30_VerboseIsDeterministic ==
    FormattedTwice => Flat(slot) = Flat(out)

\* C30, supporting: the two strings are equal when no node of the chain has
\* two or more keys in its own field set.
C30_SingleKeySets ==
    (FormattedTwice /\ WidestFieldSet(err) <= 1) => Flat(slot) = Flat(out)

-----------------------------------------------------------------------------
(* The loop of Last, one iteration at a time *)

\* The valid targets the caller walks a chain with.
WalkTargets ==
    { Target("ptr", "callstack.HasStackTrace"), Target("ptr", "*errors_test.ErrTest") }

\* What the walk has done so far: the nodes its body has examined, in order,
\* and the value of the target's variable.
Walk(seen, t) == [seen |-> seen, t |-> t]

\* Last(err, &t) up to the loop: the checks pass, found is nil (call.prior),
\* the loop variable err (slot) is the head.
LastBegin ==
    \E target \in WalkTargets :
        /\ call.op \notin Inspections
        /\ TargetCheck(target) = "ok"
        /\ call' = Call("Last loop", NoMsg, NoFields, target, Nil)
        /\ ret' = "running"
        /\ slot' = err
        /\ out' = Walk(<<>>, Nil)
        /\ UNCHANGED <<err, built, maps>>

\* A loop body that leaves the loop at the first match.
LastStep_StopsAtMatch ==
    /\ call.op = "Last loop"
    /\ ret = "running"
    /\ slot # Nil
    /\ LET typed == AssignableTo(slot, call.target.elem)
           viaAs == HasAsMethod(slot) /\ AsMethod(slot, call.target, out.t).ok
       IN  /\ call' = [call EXCEPT !.prior = IF typed \/ viaAs THEN slot ELSE @]
           /\ out' = Walk(Append(out.seen, slot),
                          IF HasAsMethod(slot) THEN AsMethod(slot, call.target, out.t).slot
                          ELSE out.t)
           /\ slot' = IF typed \/ viaAs THEN Nil ELSE Unwrap(slot)
    /\ UNCHANGED <<err, built, maps, ret>>

\* One iteration of for err != nil { ...; err = Unwrap(err) }
LastStep ==
    /\ call.op = "Last loop"
    /\ ret = "running"
    /\ slot # Nil
    /\ LET typed == AssignableTo(slot, call.target.elem)
           viaAs == HasAsMethod(slot) /\ AsMethod(slot, call.target, out.t).ok
       IN  /\ call' = [call EXCEPT !.prior = IF typed \/ viaAs THEN slot ELSE @]
           /\ out' = Walk(Append(out.seen, slot),
                          IF HasAsMethod(slot) THEN AsMethod(slot, call.target, out.t).slot
                          ELSE out.t)
           /\ slot' = Unwrap(slot)
    /\ UNCHANGED <<err, built, maps, ret>>

\* The loop has ended: if found != nil { val.Elem().Set(...); return true };
\* return false
LastEnd ==
    /\ call.op = "Last loop"
    /\ ret = "running"
    /\ slot = Nil
    /\ IF call.prior # Nil
       THEN IF AssignableTo(call.prior, call.target.elem)
            THEN ret' = "true" /\ out' = Walk(out.seen, call.prior)
            ELSE ret' = SetPanic /\ out' = out
       ELSE ret' = "false" /\ out' = out
    /\ UNCHANGED <<err, built, maps, call, slot>>

NextWalk ==
    \/ Construct
    \/ LastBegin
    \/ LastStep
    \/ LastEnd

\* The caller builds a chain and calls Last; a call that has begun runs on.
SpecWalk == Init /\ [][NextWalk]_vars /\ WF_vars(LastStep) /\ WF_vars(LastEnd)

-----------------------------------------------------------------------------
(* C27 *)

Walking == call.op = "Last loop" /\ ret = "running"

Walked == call.op = "Last loop" /\ ret # "running"

WholeChain(e) == [i \in Positions(e) |-> At(e, i)]

\* Every call returns what Last computes in one piece.
WalkAgreesWithLast ==
    Walked =>
        /\ ret = Last(err, call.target, Nil).ret
        /\ out.t = Last(err, call.target, Nil).slot

\* C27: on every finite chain and valid target Last terminates, having
\* examined every node of the chain exactly once, from head to leaf in order;
\* it does not stop at the first match, and what it returns is what the whole
\* chain gives.
C27_LastWalksWholeChain ==
    /\ [](Walking => /\ out.seen = SubSeq(WholeChain(err), 1, Len(out.seen))
                     /\ slot = IF Len(out.seen) = Len(err) THEN Nil
                               ELSE At(err, Len(out.seen) + 1))
    /\ [](Walked => out.seen = WholeChain(err))
    /\ [](WalkAgreesWithLast)
    /\ (Walking ~> Walked)

\* Last has returned true after a walk over four nodes of which the first and
\* the third matched.
C27_Witness ==
    /\ Walked
    /\ ret = "true"
    /\ Len(err) = 4
    /\ TypePositions(err, call.target) = {1, 3}
    /\ out.seen = WholeChain(err)
    /\ out.t = At(err, 3)

-----------------------------------------------------------------------------
(* C28 *)

\* Last and As on the same chain, target and prior value of the variable.
AsOfCall == As(err, call.target, call.prior)

\* C28: for every chain and valid target Last reports found exactly when As
\* does, and when exactly one node of the chain matches both leave the same
\* value in the target.
C28_LastFindsWhatAsFinds ==
    ValidCall("Last") =>
        /\ ret = "true" <=> AsOfCall.ret = "true"
        /\ Cardinality(MatchPositions(err, call.target)) = 1 =>
              (ret = AsOfCall.ret /\ slot = AsOfCall.slot)

\* C28, supporting: the two agree on every chain in which no node matches
\* through an As method.
C28_TypeMatchesOnly ==
    (ValidCall("Last")
     /\ MatchPositions(err, call.target) = TypePositions(err, call.target)) =>
        /\ ret = "true" <=> AsOfCall.ret = "true"
        /\ Cardinality(MatchPositions(err, call.target)) = 1 =>
              (ret = AsOfCall.ret /\ slot = AsOfCall.slot)

-----------------------------------------------------------------------------
(* C29 *)

\* The positions of the nodes with an As method that returns false for target.
RefusingPositions(e, target) ==
    {i \in Positions(e) : HasAsMethod(At(e, i)) /\ ~AsMethod(At(e, i), target, Nil).ok}

\* C29: with a valid target Last does not fault, also on chains with nodes
\* that match only through their As method; when it returns true the target
\* holds a node of the chain whose type is assignable to the target's type;
\* and nodes whose As method returned false leave the target as it was.
C29_LastIsSafe ==
    ValidCall("Last") =>
        /\ ret \in {"true", "false"}
        /\ ret = "true" =>
              \E i \in Positions(err) :
                  slot = At(err, i) /\ AssignableTo(slot, call.target.elem)
        /\ (ret = "false" /\ RefusingPositions(err, call.target) # {}) =>
              slot = call.prior

\* C29, supporting: the statement holds on every chain in which no node
\* matches through an As method.
C29_TypeMatchesOnly ==
    (ValidCall("Last")
     /\ MatchPositions(err, call.target) = TypePositions(err, call.target)) =>
        /\ ret \in {"true", "false"}
        /\ ret = "true" =>
              \E i \in Positions(err) :
                  slot = At(err, i) /\ AssignableTo(slot, call.target.elem)
        /\ (ret = "false" /\ RefusingPositions(err, call.target) # {}) =>
              slot = call.prior

====
